---- MODULE Spec2Model ----
(***************************************************************************)
(* Model of the repository registry of src/bot.py: the handlers            *)
(* process_repo_addition (/add and free text), remove_cmd (/remove) and    *)
(* clearall_cmd (/clearall) reading and writing data/tracked.json through  *)
(* the GitHub contents API (load_tracked / save_tracked).                  *)
(*                                                                         *)
(* Every HTTP request of a handler is one step.  Procs are handler runs    *)
(* that overlap in time on the same remote file (tasks of several users,   *)
(* several instances of the bot); nothing in the code serialises them, the *)
(* blob sha that the PUT must name is the only thing that orders them.     *)
(*                                                                         *)
(* A repository identifier "owner/name" is a number.  The sha of the       *)
(* document is the git blob hash of its content: equal contents have equal *)
(* shas and, the hash taken as collision free, different contents have     *)
(* different ones.                                                         *)
(*                                                                         *)
(* Spec is the handlers running against the remote file.  ExtSpec is       *)
(* extract_repos_from_text called on texts of characters, RtSpec is        *)
(* load_tracked, save_tracked, load_tracked in a row on any document.      *)
(***************************************************************************)
EXTENDS Naturals, Integers, Sequences, FiniteSets, TLC

\* ------------------------------------------------------------------ bounds
\* Longest ordinary candidate batch drawn as input.
MaxBatchLen == 1
\* Identifiers 1..NumStored may be in the document of a read, write, read
\* sequence.
NumStored == 3
\* Most repository mentions in one text handed to the extractor.
MaxMentions == 3

\* --------------------------------------------------------------- constants
\* "if len(repos_to_check) > 20"
MaxBatch == 20
\* ADMIN_ID
ADMIN_ID == 1

Procs == {"p1", "p2"}
Users == {ADMIN_ID, ADMIN_ID + 1}

\* The repositories the provider may or may not know; every other identifier
\* names a repository that does not exist.
SmallIDs == {1, 2}

VARIABLES
    file,    \* the remote document data/tracked.json
    task,    \* per handler run: its position and local variables
    serial,  \* history: the committed operations applied one after another
    since,   \* history: per run, the writes accepted since the run's read
    rt,      \* a read, write, read sequence on the store taken by itself
    ext      \* a call of extract_repos_from_text taken by itself

vars == <<file, task, serial, since, rt, ext>>

\* ------------------------------------------------------------------ helpers
\* "x in list" is x \in Range(list)
Range(s) == {s[i] : i \in 1..Len(s)}

NoDup(s) == \A i, j \in 1..Len(s) : i /= j => s[i] /= s[j]

\* all duplicate-free sequences over S of length at most n
RECURSIVE SeqsUpTo(_, _)
SeqsUpTo(S, n) ==
    IF n = 0 THEN {<<>>}
    ELSE LET shorter == SeqsUpTo(S, n - 1)
         IN  shorter \cup UNION {{Append(s, x) : x \in S \ Range(s)} : s \in shorter}

\* list.remove(x): deletes the first occurrence only
RECURSIVE ListRemove(_, _)
ListRemove(s, x) ==
    IF s = <<>> THEN <<>>
    ELSE IF Head(s) = x THEN Tail(s)
    ELSE <<Head(s)>> \o ListRemove(Tail(s), x)

\* ------------------------------------------------------------ remote store
None == <<>>

\* json.dumps({"repos": repos}) and back: json.loads(...).get("repos", [])
Encode(repos) == [repos |-> repos]
Decode(doc) == IF "repos" \in DOMAIN doc THEN doc.repos ELSE <<>>

\* mutant: the sha does not depend on the document body
BlobSha_Fixed(doc) == <<Encode(<<>>)>>

\* content["sha"]: the git blob hash of the document body
BlobSha(doc) == <<doc>>

Absent == [exists |-> FALSE, doc |-> Encode(<<>>)]
Present(repos) == [exists |-> TRUE, doc |-> Encode(repos)]

CurrentSha(f) == IF f.exists THEN BlobSha(f.doc) ELSE None

\* mutant: a 404 is answered like an empty document, with the sha of one
load_tracked_AbsentAsEmptyDoc(f) ==
    [repos |-> Decode(f.doc), sha |-> BlobSha(f.doc)]

\* mutant: the sha returned is not the one of the document body
load_tracked_OtherSha(f) ==
    IF ~f.exists THEN [repos |-> <<>>, sha |-> None]
    ELSE [repos |-> Decode(f.doc), sha |-> <<Encode(<<0>>)>>]

\* load_tracked on a 2xx/404 answer
load_tracked(f) ==
    IF ~f.exists THEN [repos |-> <<>>, sha |-> None]
    ELSE [repos |-> Decode(f.doc), sha |-> CurrentSha(f)]

\* mutant: the PUT goes through whatever sha it names
PutAccepted_NoCheck(f, sha) == TRUE

\* mutant: only the presence of a sha is compared, not its value
PutAccepted_PresenceOnly(f, sha) == (sha = None) = (~f.exists)

\* the PUT is accepted when the sha it names is the file's current one
PutAccepted(f, sha) == sha = CurrentSha(f)

\* ------------------------------------------------------------- validator
\* requests.get(.../repos/{repo}): 2xx, another status, or an exception
ValidatorResponses(repo) ==
    IF repo \in SmallIDs THEN {"ok", "not_ok", "exception"} ELSE {"not_ok"}

\* --------------------------------------------------------------- inputs
\* extract_repos_from_text yields a set; a batch is that set in the order the
\* handler's for-loop enumerates it.
\* The long batches: identifiers n, n-1, ..., 1
BigBatch(n) == [i \in 1..n |-> n + 1 - i]

\* every ordinary batch over SmallIDs, a batch of 20 and a batch of 21
Batches ==
    SeqsUpTo(SmallIDs, MaxBatchLen) \cup {BigBatch(MaxBatch), BigBatch(MaxBatch + 1)}

\* -------------------------------------------------------------- extractor
\* A text is a sequence of characters.
\* the class [A-Za-z0-9_.-]
IdentChars ==
    {"a", "b", "c", "d", "e", "f", "g", "h", "i", "j", "k", "l", "m",
     "n", "o", "p", "q", "r", "s", "t", "u", "v", "w", "x", "y", "z",
     "A", "B", "C", "D", "E", "F", "G", "H", "I", "J", "K", "L", "M",
     "N", "O", "P", "Q", "R", "S", "T", "U", "V", "W", "X", "Y", "Z",
     "0", "1", "2", "3", "4", "5", "6", "7", "8", "9", "_", ".", "-"}

Slash == <<"/">>
\* "github.com/"
HostPath == <<"g", "i", "t", "h", "u", "b", ".", "c", "o", "m", "/">>
\* "http://" and "https://"
Http == <<"h", "t", "t", "p", ":", "/", "/">>
Https == <<"h", "t", "t", "p", "s", ":", "/", "/">>

\* text.replace(',', ' ').replace('\n', ' ')
ReplaceSeparators(text) ==
    [i \in 1..Len(text) |-> IF text[i] \in {",", "\n"} THEN " " ELSE text[i]]

\* the literal lit stands in s at position i
LiteralAt(s, i, lit) ==
    /\ i + Len(lit) - 1 <= Len(s)
    /\ \A k \in 1..Len(lit) : s[i + k - 1] = lit[k]

\* the position after the longest run of [A-Za-z0-9_.-] that starts at i
RECURSIVE RunEnd(_, _)
RunEnd(s, i) ==
    IF i <= Len(s) /\ s[i] \in IdentChars THEN RunEnd(s, i + 1) ELSE i

NoMatch == [ok |-> FALSE, u |-> <<>>, r |-> <<>>, end |-> 0]

\* ([A-Za-z0-9_.-]+)/([A-Za-z0-9_.-]+) matched at position i: both groups are
\* greedy, and the first can only end where a "/" follows the whole run
PairAt(s, i) ==
    LET slash == RunEnd(s, i)
        end == RunEnd(s, slash + 1)
    IN  IF slash > i /\ slash <= Len(s) /\ s[slash] = "/" /\ end > slash + 1
        THEN [ok |-> TRUE, u |-> SubSeq(s, i, slash - 1),
              r |-> SubSeq(s, slash + 1, end - 1), end |-> end]
        ELSE NoMatch

\* (?:https?://github\.com/)? : the places where the pair may start when the
\* match starts at i, in the order the regex engine tries them
PairStarts(s, i) ==
    (IF LiteralAt(s, i, Https \o HostPath) THEN <<i + Len(Https \o HostPath)>>
     ELSE IF LiteralAt(s, i, Http \o HostPath) THEN <<i + Len(Http \o HostPath)>>
     ELSE <<>>) \o <<i>>

\* the pattern matched at position i
MatchAt(s, i) ==
    LET starts == PairStarts(s, i)
    IN  IF PairAt(s, starts[1]).ok THEN PairAt(s, starts[1])
        ELSE PairAt(s, starts[Len(starts)])

\* re.findall(pattern, text): the matches from left to right, none overlapping
RECURSIVE FindAll(_, _)
FindAll(s, i) ==
    IF i > Len(s) THEN <<>>
    ELSE IF MatchAt(s, i).ok
         THEN <<<<MatchAt(s, i).u, MatchAt(s, i).r>>>> \o FindAll(s, MatchAt(s, i).end)
         ELSE FindAll(s, i + 1)

\* set(f"{u}/{r}" for (u, r) in found)
extract_repos_from_text(text) ==
    LET found == FindAll(ReplaceSeparators(text), 1)
    IN  {found[i][1] \o Slash \o found[i][2] : i \in 1..Len(found)}

\* The texts handed to the extractor: up to MaxMentions mentions of the
\* repositories a/b and c/d, each bare, as an https or http URL or as
\* github.com/owner/name, with a space, a comma or a newline between them.
Canonical == {<<"a", "/", "b">>, <<"c", "/", "d">>}
Forms == {<<>>, Https \o HostPath, Http \o HostPath, HostPath}
Separators == {<<" ">>, <<",">>, <<"\n">>}
Mentions == {[chars |-> f \o c, meant |-> {c}] : f \in Forms, c \in Canonical}

RECURSIVE Texts(_)
Texts(n) ==
    IF n = 1 THEN Mentions
    ELSE Texts(n - 1) \cup
         {[chars |-> t.chars \o sep \o m.chars, meant |-> t.meant \cup m.meant] :
              t \in Texts(n - 1), sep \in Separators, m \in Mentions}

ExtOff == [pc |-> "off", text |-> <<>>, meant |-> {}, out |-> {}]

\* ------------------------------------------------- read, write, read again
Stored == 1..NumStored

\* the list read with x in it: "if repo in repos" / "repos.append(repo)"
WithRepo(repos, x) == IF x \in Range(repos) THEN repos ELSE Append(repos, x)

NotRead == [repos |-> <<>>, sha |-> None]
RtOff == [pc |-> "off", x |-> 0, first |-> NotRead, second |-> NotRead]

\* ----------------------------------------------------------------- state
Idle ==
    [pc |-> "idle", op |-> "none", user |-> 0, batch |-> <<>>, idx |-> 0,
     repos |-> <<>>, sha |-> None, snap |-> <<>>,
     added |-> <<>>, skipped |-> <<>>, failed |-> <<>>,
     actually_removed |-> <<>>, not_found |-> <<>>,
     vlog |-> <<>>, nreads |-> 0, nwrites |-> 0, res |-> "none",
     seen |-> Absent, over |-> Absent, after |-> Absent]

\* nothing accepted since the read
NoWrites == [any |-> FALSE, same |-> FALSE]

Init ==
    /\ file = Absent
    /\ task = [p \in Procs |-> Idle]
    /\ serial = <<>>
    /\ since = [p \in Procs |-> NoWrites]
    /\ rt = RtOff
    /\ ext = ExtOff

Done(t, r) == [t EXCEPT !.pc = "done", !.res = r]

\* mutant: the sha of the read is not kept, the PUT names none
Loaded_DropsSha(t, f) ==
    [t EXCEPT !.repos = load_tracked(f).repos,
              !.snap = load_tracked(f).repos, !.nreads = @ + 1, !.seen = f]

\* "repos, sha = load_tracked()"; history: the document the GET met (seen)
Loaded(t, f) ==
    [t EXCEPT !.repos = load_tracked(f).repos, !.sha = load_tracked(f).sha,
              !.snap = load_tracked(f).repos, !.nreads = @ + 1, !.seen = f]

\* mutant: the failed GET is swallowed, the handler goes on to save_tracked
\* with an empty list
LoadFails_Swallowed(p, t) ==
    /\ task' = [task EXCEPT ![p] =
                    [t EXCEPT !.nreads = @ + 1, !.res = "read_error", !.pc = "save"]]
    /\ UNCHANGED <<file, serial, since, rt, ext>>

\* r.raise_for_status() of load_tracked raises: the handler ends there
LoadFails(p, t) ==
    /\ task' = [task EXCEPT ![p] = Done([t EXCEPT !.nreads = @ + 1], "read_error")]
    /\ UNCHANGED <<file, serial, since, rt, ext>>

\* -------------------------------------------------------------- add path
\* mutant: the ceiling test is off by one
TooMany_OffByOne(b) == Len(b) >= MaxBatch

\* "if len(repos_to_check) > 20"
TooMany(b) == Len(b) > MaxBatch

\* process_repo_addition up to and including load_tracked()
AddBegin(p, b) ==
    /\ task[p].pc = "idle"
    /\ LET t == [task[p] EXCEPT !.op = "add", !.batch = b]
       IN  IF b = <<>> THEN
               /\ task' = [task EXCEPT ![p] = Done(t, "no_repos")]
               /\ UNCHANGED <<file, serial, since, rt, ext>>
           ELSE IF TooMany(b) THEN
               /\ task' = [task EXCEPT ![p] = Done(t, "too_many")]
               /\ UNCHANGED <<file, serial, since, rt, ext>>
           ELSE
               \/ /\ task' = [task EXCEPT ![p] =
                                 [Loaded(t, file) EXCEPT !.pc = "validate", !.idx = 1]]
                  /\ UNCHANGED <<file, serial, since, rt, ext>>
               \/ LoadFails(p, t)

\* mutant: the "if repo in repos" test is missing
AddItem_NoSkip(t, repo, resp) ==
    IF resp = "ok" THEN
        [t EXCEPT !.repos = Append(@, repo), !.added = Append(@, repo),
                  !.vlog = Append(@, <<repo, resp>>)]
    ELSE
        [t EXCEPT !.failed = Append(@, <<repo, resp>>),
                  !.vlog = Append(@, <<repo, resp>>)]

\* mutant: the validator's answer is not looked at
AddItem_IgnoreAnswer(t, repo, resp) ==
    IF repo \in Range(t.repos) THEN
        [t EXCEPT !.skipped = Append(@, repo)]
    ELSE
        [t EXCEPT !.repos = Append(@, repo), !.added = Append(@, repo),
                  !.vlog = Append(@, <<repo, resp>>)]

\* mutant: no try/except around the validator call, the exception ends the run
AddItem_NoTry(t, repo, resp) ==
    IF repo \in Range(t.repos) THEN
        [t EXCEPT !.skipped = Append(@, repo)]
    ELSE IF resp = "ok" THEN
        [t EXCEPT !.repos = Append(@, repo), !.added = Append(@, repo),
                  !.vlog = Append(@, <<repo, resp>>)]
    ELSE IF resp = "exception" THEN
        [t EXCEPT !.pc = "done", !.res = "raised", !.idx = Len(t.batch) + 1,
                  !.added = <<>>, !.vlog = Append(@, <<repo, resp>>)]
    ELSE
        [t EXCEPT !.failed = Append(@, <<repo, resp>>),
                  !.vlog = Append(@, <<repo, resp>>)]

\* mutant: the candidate is appended before the validator is asked
AddItem_AppendFirst(t, repo, resp) ==
    IF repo \in Range(t.repos) THEN
        [t EXCEPT !.skipped = Append(@, repo)]
    ELSE IF resp = "ok" THEN
        [t EXCEPT !.repos = Append(@, repo), !.added = Append(@, repo),
                  !.vlog = Append(@, <<repo, resp>>)]
    ELSE
        [t EXCEPT !.repos = Append(@, repo), !.failed = Append(@, <<repo, resp>>),
                  !.vlog = Append(@, <<repo, resp>>)]

\* one round of "for repo in repos_to_check"
AddItem(t, repo, resp) ==
    IF repo \in Range(t.repos) THEN
        [t EXCEPT !.skipped = Append(@, repo)]
    ELSE IF resp = "ok" THEN
        [t EXCEPT !.repos = Append(@, repo), !.added = Append(@, repo),
                  !.vlog = Append(@, <<repo, resp>>)]
    ELSE
        [t EXCEPT !.failed = Append(@, <<repo, resp>>),
                  !.vlog = Append(@, <<repo, resp>>)]

\* mutant: "if added:" is missing, the list is always saved
AfterAddLoop_AlwaysSave(t) ==
    IF t.idx <= Len(t.batch) THEN t ELSE [t EXCEPT !.pc = "save"]

\* mutant: the list is saved whenever a candidate was looked at
AfterAddLoop_SaveIfSkipped(t) ==
    IF t.idx <= Len(t.batch) THEN t
    ELSE IF t.added /= <<>> \/ t.skipped /= <<>> THEN [t EXCEPT !.pc = "save"]
    ELSE Done(t, "replied")

\* mutant: the reply is sent before save_tracked is called
AfterAddLoop_ReplyFirst(t) ==
    IF t.idx <= Len(t.batch) THEN t
    ELSE IF t.added /= <<>> THEN [t EXCEPT !.pc = "save", !.res = "replied"]
    ELSE Done(t, "replied")

\* "if added: save_tracked(repos, sha)" and the reply otherwise
AfterAddLoop(t) ==
    IF t.idx <= Len(t.batch) THEN t
    ELSE IF t.added /= <<>> THEN [t EXCEPT !.pc = "save"]
    ELSE Done(t, "replied")

AddStep(p) ==
    /\ task[p].pc = "validate"
    /\ LET t == task[p]
           repo == t.batch[t.idx]
       IN  \E resp \in ValidatorResponses(repo) :
               task' = [task EXCEPT ![p] =
                           AfterAddLoop([AddItem(t, repo, resp) EXCEPT !.idx = @ + 1])]
    /\ UNCHANGED <<file, serial, since, rt, ext>>

\* ----------------------------------------------------------- remove path
RECURSIVE RemoveLoop(_, _)
\* "for repo in repos_to_remove", from the i-th candidate on
RemoveLoop(t, i) ==
    IF i > Len(t.batch) THEN t
    ELSE LET repo == t.batch[i]
         IN  IF repo \in Range(t.repos) THEN
                 RemoveLoop([t EXCEPT !.repos = ListRemove(@, repo),
                                      !.actually_removed = Append(@, repo)], i + 1)
             ELSE
                 RemoveLoop([t EXCEPT !.not_found = Append(@, repo)], i + 1)

\* mutant: "if actually_removed:" is missing, the list is always saved
AfterRemoveLoop_AlwaysSave(t) == [t EXCEPT !.pc = "save"]

\* "if actually_removed: save_tracked(repos, sha)" and the reply otherwise
AfterRemoveLoop(t) ==
    IF t.actually_removed /= <<>> THEN [t EXCEPT !.pc = "save"]
    ELSE Done(t, "replied")

\* remove_cmd up to and including load_tracked() and the loop
RemoveBegin(p, b) ==
    /\ task[p].pc = "idle"
    /\ LET t == [task[p] EXCEPT !.op = "remove", !.batch = b]
       IN  IF b = <<>> THEN
               /\ task' = [task EXCEPT ![p] = Done(t, "no_repos")]
               /\ UNCHANGED <<file, serial, since, rt, ext>>
           ELSE
               \/ /\ task' = [task EXCEPT ![p] =
                                 AfterRemoveLoop(RemoveLoop(Loaded(t, file), 1))]
                  /\ UNCHANGED <<file, serial, since, rt, ext>>
               \/ LoadFails(p, t)

\* ------------------------------------------------------------ clear path
\* mutant: an already empty list is not saved again
ClearList_IfChanged(t) ==
    IF t.repos = <<>> THEN Done(t, "replied")
    ELSE [t EXCEPT !.repos = <<>>, !.pc = "save"]

\* "save_tracked([], sha)": the list read is dropped, [] is what is saved
ClearList(t) == [t EXCEPT !.repos = <<>>, !.pc = "save"]

\* mutant: the caller is not looked at
Authorized_Anyone(u) == TRUE

\* "if update.effective_user.id != ADMIN_ID" is the denial
Authorized(u) == u = ADMIN_ID

\* clearall_cmd up to and including load_tracked()
ClearBegin(p, u) ==
    /\ task[p].pc = "idle"
    /\ LET t == [task[p] EXCEPT !.op = "clear", !.user = u]
       IN  IF ~Authorized(u) THEN
               /\ task' = [task EXCEPT ![p] = Done(t, "denied")]
               /\ UNCHANGED <<file, serial, since, rt, ext>>
           ELSE
               \/ /\ task' = [task EXCEPT ![p] = ClearList(Loaded(t, file))]
                  /\ UNCHANGED <<file, serial, since, rt, ext>>
               \/ LoadFails(p, t)

\* ------------------------------------------------------------- list path
\* list_cmd: load_tracked() and the reply
ListBegin(p) ==
    /\ task[p].pc = "idle"
    /\ LET t == [task[p] EXCEPT !.op = "list"]
       IN  \/ /\ task' = [task EXCEPT ![p] = Done(Loaded(t, file), "replied")]
              /\ UNCHANGED <<file, serial, since, rt, ext>>
           \/ LoadFails(p, t)

\* ----------------------------------------------------------- save_tracked
\* what the committed operation does to a registry, replayed on the history
Replay(t, s) ==
    IF t.op = "add" THEN s \o t.added
    ELSE IF t.op = "remove" THEN
        LET RECURSIVE Drop(_, _)
            Drop(l, i) == IF i > Len(t.actually_removed) THEN l
                          ELSE Drop(ListRemove(l, t.actually_removed[i]), i + 1)
        IN  Drop(s, 1)
    ELSE <<>>

\* the PUT of save_tracked has been answered; history: the document it met
\* (over) and the document it left (after)
Answered(t, f, g) == [t EXCEPT !.nwrites = @ + 1, !.over = f, !.after = g]

\* the PUT answers 2xx
SaveOk(p) ==
    /\ task[p].pc = "save"
    /\ PutAccepted(file, task[p].sha)
    /\ file' = Present(task[p].repos)
    /\ serial' = Replay(task[p], serial)
    /\ since' = [q \in Procs |->
                   IF q /= p /\ task[q].pc \in {"validate", "save"}
                   THEN [any |-> TRUE,
                         same |-> since[q].same \/ task[p].sha = task[q].sha]
                   ELSE since[q]]
    /\ task' = [task EXCEPT ![p] = Done(Answered(@, file, Present(task[p].repos)), "replied")]
    /\ UNCHANGED <<rt, ext>>

\* the PUT is refused for its sha: raise_for_status() raises
SaveConflict(p) ==
    /\ task[p].pc = "save"
    /\ ~PutAccepted(file, task[p].sha)
    /\ task' = [task EXCEPT ![p] = Done(Answered(@, file, file), "conflict")]
    /\ UNCHANGED <<file, serial, since, rt, ext>>

\* the PUT fails otherwise (5xx, 401, ...): raise_for_status() raises
SaveFails(p) ==
    /\ task[p].pc = "save"
    /\ task' = [task EXCEPT ![p] = Done(Answered(@, file, file), "write_error")]
    /\ UNCHANGED <<file, serial, since, rt, ext>>

\* the handler has returned (or raised); the next update is taken
Return(p) ==
    /\ task[p].pc = "done"
    /\ task' = [task EXCEPT ![p] = Idle]
    /\ since' = [since EXCEPT ![p] = NoWrites]
    /\ UNCHANGED <<file, serial, rt, ext>>

Next ==
    \E p \in Procs :
        \/ \E b \in Batches : AddBegin(p, b)
        \/ AddStep(p)
        \/ \E b \in Batches : RemoveBegin(p, b)
        \/ \E u \in Users : ClearBegin(p, u)
        \/ ListBegin(p)
        \/ SaveOk(p)
        \/ SaveConflict(p)
        \/ SaveFails(p)
        \/ Return(p)

Spec == Init /\ [][Next]_vars

\* ------------------------------------- the extractor called on its own
ExtInit ==
    /\ file = Absent
    /\ task = [p \in Procs |-> Idle]
    /\ serial = <<>>
    /\ since = [p \in Procs |-> NoWrites]
    /\ rt = RtOff
    /\ \E t \in Texts(MaxMentions) :
           ext = [pc |-> "called", text |-> t.chars, meant |-> t.meant, out |-> {}]

\* extract_repos_from_text(text) returns
Extract ==
    /\ ext.pc = "called"
    /\ ext' = [ext EXCEPT !.pc = "returned", !.out = extract_repos_from_text(ext.text)]
    /\ UNCHANGED <<file, task, serial, since, rt>>

ExtNext == Extract

ExtSpec == ExtInit /\ [][ExtNext]_vars

\* ------------------------- load_tracked, save_tracked, load_tracked in a row
RtInit ==
    /\ file \in {Absent} \cup {Present(s) : s \in SeqsUpTo(Stored, NumStored)}
    /\ task = [p \in Procs |-> Idle]
    /\ serial = <<>>
    /\ since = [p \in Procs |-> NoWrites]
    /\ rt \in {[RtOff EXCEPT !.pc = "start", !.x = x] : x \in Stored}
    /\ ext = ExtOff

\* "repos, sha = load_tracked()"
RtRead ==
    /\ rt.pc = "start"
    /\ rt' = [rt EXCEPT !.pc = "read", !.first = load_tracked(file)]
    /\ UNCHANGED <<file, task, serial, since, ext>>

\* "save_tracked(repos, sha)" with x in repos; the PUT answers 2xx
RtWrite ==
    /\ rt.pc = "read"
    /\ PutAccepted(file, rt.first.sha)
    /\ file' = Present(WithRepo(rt.first.repos, rt.x))
    /\ rt' = [rt EXCEPT !.pc = "written"]
    /\ UNCHANGED <<task, serial, since, ext>>

\* "repos, sha = load_tracked()" once more
RtReadAgain ==
    /\ rt.pc = "written"
    /\ rt' = [rt EXCEPT !.pc = "read again", !.second = load_tracked(file)]
    /\ UNCHANGED <<file, task, serial, since, ext>>

RtNext == RtRead \/ RtWrite \/ RtReadAgain

RtSpec == RtInit /\ [][RtNext]_vars

\* ------------------------------------------------------------ vocabulary
FileRepos == IF file.exists THEN Decode(file.doc) ELSE <<>>

Ids(f) == IF f.exists THEN Range(Decode(f.doc)) ELSE {}

\* the registry state a run has read: absent, or a document with its snapshot
ReadState(t) == IF t.sha = None THEN Absent ELSE Present(t.snap)

\* the run's PUT has been answered / has been accepted
Wrote(t) == t.pc = "done" /\ t.nwrites = 1
Committed(t) == Wrote(t) /\ t.res = "replied"

\* the run calls save_tracked
WriteIssued(t) == t.pc = "save" \/ t.nwrites = 1

FailedRepos(t) == {t.failed[i][1] : i \in 1..Len(t.failed)}

\* an add run that has read the registry and left its loop
AddFinished(t) ==
    /\ t.op = "add" /\ t.pc \in {"save", "done"}
    /\ t.res \notin {"no_repos", "too_many", "read_error"}

\* a remove run that has read the registry and left its loop
RemoveFinished(t) ==
    /\ t.op = "remove" /\ t.pc \in {"save", "done"}
    /\ t.res \notin {"no_repos", "read_error"}

Kept(t) == SelectSeq(t.snap, LAMBDA x : x \notin Range(t.batch))

\* ------------------------------------------------------------------- C1
\* C1 as stated: a run that writes with the sha of its read, after another
\* run that named the same sha has had its write accepted, is refused.
C1_Original ==
    \A q \in Procs :
        (Wrote(task[q]) /\ since[q].same) => task[q].res /= "replied"

\* C1 (amended): when a run writes with the sha of its read after another
\* run that named the same sha had its write accepted, and the document no
\* longer has the content the run read, the write is refused and changes
\* nothing: the registry stays what the accepted write made it.
C1_StaleWriteRefused ==
    \A q \in Procs :
        LET t == task[q]
        IN  (Wrote(t) /\ since[q].same /\ t.over /= ReadState(t))
            => t.res /= "replied" /\ t.after = t.over

\* a run was refused after another run, which had read the same state, had
\* committed a change; the registry is what the refused run met
C1_Witness ==
    \E q \in Procs :
        /\ Wrote(task[q]) /\ task[q].res = "conflict"
        /\ since[q].same
        /\ task[q].over /= ReadState(task[q])
        /\ file = task[q].over

\* ------------------------------------------------------------------- C2
\* C2: an accepted write replaces a document that is exactly what the
\* writer read; the registry always equals the committed operations applied
\* one at a time in commit order; an identifier leaves the registry only by
\* a committed remove naming it or a committed clear.
C2_NoLostUpdate ==
    /\ FileRepos = serial
    /\ \A p \in Procs :
          LET t == task[p]
          IN  Committed(t) =>
                  /\ t.over = ReadState(t)
                  /\ t.after = Present(t.repos)
                  /\ \A x \in Ids(t.over) \ Ids(t.after) :
                         \/ t.op = "clear"
                         \/ t.op = "remove" /\ x \in Range(t.actually_removed)

\* a run committed an add although another run committed between its read
\* and its write
C2_Witness ==
    \E p \in Procs :
        /\ Committed(task[p]) /\ task[p].op = "add"
        /\ since[p].any
        /\ Len(FileRepos) >= 1

\* ------------------------------------------------------------------- C3
\* C3: the persisted identifier list never holds an identifier twice.
C3_Unique == NoDup(FileRepos)

\* an add of a tracked and an untracked identifier has been committed
C3_Witness ==
    \E p \in Procs :
        /\ Committed(task[p]) /\ task[p].op = "add"
        /\ task[p].skipped /= <<>> /\ task[p].added /= <<>>
        /\ FileRepos = task[p].repos

\* ------------------------------------------------------------------- C4
\* C4: in an add of at most 20 candidates every candidate gets exactly one
\* outcome against the snapshot read: already tracked if it is in the
\* snapshot, added if it is absent and the validator answers ok, failed
\* otherwise; save_tracked is called iff something was added, and what is
\* written is the snapshot followed by the added identifiers.
C4_AddReconciled ==
    \A p \in Procs :
        AddFinished(task[p]) =>
            LET t == task[p]
                absent == Range(t.batch) \ Range(t.snap)
            IN  /\ Len(t.batch) <= MaxBatch
                /\ Len(t.skipped) + Len(t.added) + Len(t.failed) = Len(t.batch)
                /\ Range(t.skipped) = Range(t.batch) \cap Range(t.snap)
                /\ Range(t.added) = {x \in absent : <<x, "ok">> \in Range(t.vlog)}
                /\ FailedRepos(t) = {x \in absent : <<x, "ok">> \notin Range(t.vlog)}
                /\ Len(t.vlog) = Cardinality(absent)
                /\ WriteIssued(t) <=> t.added /= <<>>
                /\ t.repos = t.snap \o t.added
                /\ Committed(t) => t.after = Present(t.snap \o t.added)

\* an add of 20 candidates with all three outcomes has been committed
C4_Witness ==
    \E p \in Procs :
        /\ AddFinished(task[p]) /\ Committed(task[p])
        /\ Len(task[p].batch) = MaxBatch
        /\ task[p].skipped /= <<>> /\ task[p].added /= <<>> /\ task[p].failed /= <<>>
        /\ FileRepos = task[p].snap \o task[p].added

\* ------------------------------------------------------------------- C5
AllTracked(t) ==
    /\ t.op = "add" /\ t.nreads = 1 /\ t.res /= "read_error"
    /\ Range(t.batch) \subseteq Range(t.snap)

\* C5: a candidate that is tracked is reported as already tracked and is
\* not appended again; an add whose candidates are all tracked never calls
\* save_tracked, so it leaves the document (content and sha) as it is.
C5_AddIdempotent ==
    \A p \in Procs :
        LET t == task[p]
        IN  /\ AllTracked(t) => t.pc /= "save" /\ t.nwrites = 0
            /\ AddFinished(t) =>
                   /\ \A x \in Range(t.batch) \cap Range(t.snap) :
                          x \in Range(t.skipped) /\ x \notin Range(t.added)
                   /\ NoDup(t.repos)
                   /\ AllTracked(t) =>
                          /\ t.skipped = t.batch /\ t.added = <<>> /\ t.failed = <<>>
                          /\ t.repos = t.snap
                          /\ t.pc = "done" /\ t.res = "replied"

\* the add of one tracked identifier has ended without a write
C5_Witness ==
    \E p \in Procs :
        /\ AddFinished(task[p]) /\ task[p].pc = "done"
        /\ Len(task[p].batch) = 1 /\ task[p].skipped = task[p].batch
        /\ task[p].nwrites = 0
        /\ file = ReadState(task[p])

\* ------------------------------------------------------------------- C6
NoneTracked(t) ==
    /\ t.op = "remove" /\ t.nreads = 1 /\ t.res /= "read_error"
    /\ Range(t.batch) \cap Range(t.snap) = {}

\* C6: in a remove every candidate in the snapshot is reported removed and
\* is not in the list written, every other candidate is reported not
\* tracked; save_tracked is called iff something was removed and writes the
\* snapshot without the candidates; a remove of untracked identifiers only
\* never calls save_tracked, so it leaves the document (content and sha).
C6_RemoveReconciled ==
    \A p \in Procs :
        LET t == task[p]
        IN  /\ NoneTracked(t) => t.pc /= "save" /\ t.nwrites = 0
            /\ RemoveFinished(t) =>
                   /\ Range(t.actually_removed) = Range(t.batch) \cap Range(t.snap)
                   /\ Range(t.not_found) = Range(t.batch) \ Range(t.snap)
                   /\ Len(t.actually_removed) + Len(t.not_found) = Len(t.batch)
                   /\ Range(t.actually_removed) \cap Range(t.repos) = {}
                   /\ t.repos = Kept(t)
                   /\ WriteIssued(t) <=> t.actually_removed /= <<>>
                   /\ Committed(t) => t.after = Present(Kept(t))

\* a remove of a tracked and an untracked identifier has been committed
C6_Witness ==
    \E p \in Procs :
        /\ RemoveFinished(task[p]) /\ Committed(task[p])
        /\ task[p].actually_removed /= <<>> /\ task[p].not_found /= <<>>
        /\ file = Present(Kept(task[p]))

\* ------------------------------------------------------------------- C7
\* C7: a validator answer other than ok, or an exception of the call, marks
\* that candidate failed and adds nothing; the loop goes on, so an add that
\* has read the registry ends only when every candidate has its outcome,
\* and the candidates the validator confirmed are saved by the same run.
C7_FailuresDoNotAbort ==
    \A p \in Procs :
        LET t == task[p]
        IN  (/\ t.op = "add" /\ t.pc \in {"save", "done"}
             /\ t.nreads = 1 /\ t.res /= "read_error")
            => /\ t.idx = Len(t.batch) + 1
               /\ Len(t.skipped) + Len(t.added) + Len(t.failed) = Len(t.batch)
               /\ FailedRepos(t) \cap Range(t.repos) = {}
               /\ \A i \in 1..Len(t.vlog) :
                      /\ t.vlog[i][2] = "ok" => t.vlog[i][1] \in Range(t.added)
                      /\ t.vlog[i][2] /= "ok" => t.vlog[i][1] \in FailedRepos(t)
               /\ t.added /= <<>> =>
                      WriteIssued(t) /\ Range(t.added) \subseteq Range(t.repos)

\* an add was committed in which the validator raised for one candidate and
\* denied another before it confirmed a third
C7_Witness ==
    \E p \in Procs :
        /\ task[p].op = "add" /\ Committed(task[p])
        /\ \E i, j, k \in 1..Len(task[p].vlog) :
              /\ i < k /\ j < k
              /\ task[p].vlog[i][2] = "exception"
              /\ task[p].vlog[j][2] = "not_ok"
              /\ task[p].vlog[k][2] = "ok"
              /\ task[p].vlog[k][1] \in Range(FileRepos)

\* ------------------------------------------------------------------- C8
\* C8: an add of more than 20 candidates ends at once: no load_tracked, no
\* validator call, no save_tracked, so the document (content and sha) stays
\* as it is; an add of exactly 20 candidates is not turned away.
C8_BatchCeiling ==
    \A p \in Procs :
        LET t == task[p]
        IN  /\ (t.op = "add" /\ Len(t.batch) > MaxBatch)
               => /\ t.pc = "done" /\ t.res = "too_many"
                  /\ t.nreads = 0 /\ t.nwrites = 0 /\ t.vlog = <<>>
            /\ (t.op = "add" /\ Len(t.batch) = MaxBatch)
               => t.res /= "too_many" /\ t.nreads = 1

\* an add of 21 was turned away while an add of 20 has run to its end
C8_Witness ==
    \E p, q \in Procs :
        /\ task[p].op = "add" /\ Len(task[p].batch) = MaxBatch + 1
        /\ task[p].res = "too_many"
        /\ AddFinished(task[q]) /\ Len(task[q].batch) = MaxBatch
        /\ task[q].pc = "done" /\ Len(task[q].vlog) >= MaxBatch - Cardinality(SmallIDs)
        /\ file.exists

\* ------------------------------------------------------------------- C9
\* C9: no run reads or writes the registry for a batch of more than 20
\* candidates, on the add path and on the remove path.
C9_BatchCapped ==
    \A p \in Procs :
        (task[p].nreads >= 1 \/ task[p].nwrites >= 1)
        => Len(task[p].batch) <= MaxBatch

\* ------------------------------------------------------------------ C10
\* C10: a clear by ADMIN_ID reads the document once and then calls
\* save_tracked with the empty list and the sha of that read, whatever the
\* list read; when the write is accepted the document holds the empty list.
C10_ClearWritesEmpty ==
    \A p \in Procs :
        LET t == task[p]
        IN  (/\ t.op = "clear" /\ t.user = ADMIN_ID
             /\ t.pc /= "idle" /\ t.res /= "read_error")
            => /\ t.nreads = 1 /\ t.repos = <<>> /\ WriteIssued(t)
               /\ Committed(t) =>
                      /\ t.over = ReadState(t)
                      /\ t.after = Present(<<>>)

\* one clear was accepted over a non-empty list and a later one over the
\* empty list
C10_Witness ==
    \E p, q \in Procs :
        /\ task[p].op = "clear" /\ Committed(task[p]) /\ task[p].snap /= <<>>
        /\ task[q].op = "clear" /\ Committed(task[q]) /\ task[q].snap = <<>>
        /\ task[q].sha /= None
        /\ file = Present(<<>>)

\* ------------------------------------------------------------ vocabulary
\* the GET of the run's load_tracked was answered 2xx or 404
ReadOk(t) == t.nreads = 1 /\ t.res /= "read_error"

\* the run has sent its closing reply_text, the one that lists the outcomes
Reported(t) == t.res = "replied"

\* the run was turned away before load_tracked
TurnedAway(t) == t.res \in {"no_repos", "too_many", "denied"}

\* ------------------------------------------------------------------ C11
\* C11: a clear by a caller other than ADMIN_ID ends at once with the
\* denial: no load_tracked, no save_tracked, so the document (content and
\* sha) is not touched by it.
C11_UnauthorizedClearDenied ==
    \A p \in Procs :
        LET t == task[p]
        IN  (t.op = "clear" /\ t.user /= ADMIN_ID)
            => /\ t.pc = "done" /\ t.res = "denied"
               /\ t.nreads = 0 /\ t.nwrites = 0 /\ ~WriteIssued(t)

\* a clear was denied while the registry holds identifiers
C11_Witness ==
    \E p \in Procs :
        /\ task[p].op = "clear" /\ task[p].user /= ADMIN_ID
        /\ task[p].res = "denied"
        /\ FileRepos /= <<>>

\* ------------------------------------------------------------------ C12
\* C12: a load_tracked that meets no document returns the empty list and
\* the sha None and does not fail; an add that met no document treats its
\* candidates as an add on the empty list does, and its accepted write,
\* which named None, creates the document; list, a remove of untracked
\* identifiers and an add that added nothing never call save_tracked; the
\* document comes into being only in a step in which a write is accepted.
C12_AbsenceIsEmpty ==
    /\ [](\A p \in Procs :
            LET t == task[p]
            IN  /\ (ReadOk(t) /\ ~t.seen.exists) => t.sha = None /\ t.snap = <<>>
                /\ (AddFinished(t) /\ t.snap = <<>>)
                       => t.skipped = <<>> /\ t.repos = t.added
                /\ (Committed(t) /\ t.sha = None)
                       => ~t.over.exists /\ t.after = Present(t.repos)
                /\ (t.op = "list" \/ NoneTracked(t) \/ (AddFinished(t) /\ t.added = <<>>))
                       => ~WriteIssued(t)
                /\ ~file.exists => ~Committed(t))
    /\ [][(~file.exists /\ file'.exists)
            => \E p \in Procs : task[p].pc = "save" /\ Committed(task'[p])]_vars

\* an add that met no document has created it, while a list that met no
\* document has replied
C12_Witness ==
    \E p, q \in Procs :
        /\ task[p].op = "add" /\ Committed(task[p])
        /\ ~task[p].seen.exists /\ task[p].sha = None
        /\ file = Present(task[p].added)
        /\ task[q].op = "list" /\ task[q].res = "replied" /\ ~task[q].seen.exists

\* ------------------------------------------------------------------ C13
\* C13 as stated: after load_tracked, an accepted save_tracked of the list
\* read with x in it and a second load_tracked, the second read has x and a
\* sha other than the first read's.
C13_Original ==
    rt.pc = "read again"
    => /\ rt.x \in Range(rt.second.repos)
       /\ rt.second.sha /= rt.first.sha

\* C13 (amended): the second read has x; its sha differs from the first
\* read's when x was not in the list read first; when x was in it, the
\* document written is the document read and the sha is the same.
C13_RoundTrip ==
    rt.pc = "read again"
    => /\ rt.x \in Range(rt.second.repos)
       /\ rt.x \notin Range(rt.first.repos) => rt.second.sha /= rt.first.sha
       /\ (rt.x \in Range(rt.first.repos) /\ rt.first.sha /= None)
              => rt.second = rt.first

\* x was written into an existing document that did not have it
C13_Witness ==
    /\ rt.pc = "read again"
    /\ rt.first.sha /= None /\ rt.first.repos /= <<>>
    /\ rt.x \notin Range(rt.first.repos)
    /\ rt.second.repos = Append(rt.first.repos, rt.x)
    /\ rt.second.sha /= rt.first.sha

\* ------------------------------------------------------------------ C14
\* C14: extract_repos_from_text returns exactly the canonical owner/name of
\* the repositories mentioned, whatever the form of each mention (bare,
\* https://github.com/owner/name, http://..., github.com/owner/name) and
\* whatever separates them; no part of a URL prefix is in an identifier.
C14_ExtractCanonical ==
    ext.pc = "returned" => ext.out = ext.meant

\* ------------------------------------------------------------------ C15
\* C15: the registry starts absent, and every accepted write keeps the
\* identifiers it met or adds identifiers for which the validator answered
\* ok in that same add run: no identifier the run marked failed is in the
\* document it leaves, a write that is not an add's brings in nothing, and
\* a run that was turned away for its batch writes nothing.
C15_OnlyValidatedPersisted ==
    \A p \in Procs :
        LET t == task[p]
            confirmed == {x \in Range(t.batch) : <<x, "ok">> \in Range(t.vlog)}
        IN  /\ Committed(t) =>
                   /\ t.op = "add" =>
                          /\ Ids(t.after) \ Ids(t.over) \subseteq confirmed
                          /\ FailedRepos(t) \cap Ids(t.after) = {}
                   /\ t.op /= "add" => Ids(t.after) \subseteq Ids(t.over)
            /\ t.res \in {"no_repos", "too_many"} => ~WriteIssued(t)

\* an add was committed over a non-empty registry with one candidate
\* confirmed and another one failed
C15_Witness ==
    \E p \in Procs :
        /\ task[p].op = "add" /\ Committed(task[p])
        /\ Ids(task[p].over) /= {}
        /\ task[p].failed /= <<>>
        /\ Ids(file) = Ids(task[p].over) \cup Range(task[p].added)
        /\ Range(task[p].added) \cap Ids(task[p].over) = {}
        /\ task[p].added /= <<>>

\* ------------------------------------------------------------------ C16
\* C16: a run of add, remove or clear that is not turned away calls
\* load_tracked exactly once, before any validator call and before
\* save_tracked; it calls save_tracked at most once, with the sha that its
\* own load_tracked returned; after a failed load_tracked or a failed or
\* refused save_tracked the run ends, with no second call.
C16_OneReadOneWrite ==
    \A p \in Procs :
        LET t == task[p]
        IN  /\ t.nreads <= 1 /\ t.nwrites <= 1
            /\ (t.op \in {"add", "remove", "clear"} /\ ~TurnedAway(t)) => t.nreads = 1
            /\ (t.vlog /= <<>> \/ WriteIssued(t)) => ReadOk(t)
            /\ WriteIssued(t) => t.sha = CurrentSha(t.seen)
            /\ t.res = "read_error" => t.pc = "done" /\ t.nwrites = 0
            /\ t.res \in {"conflict", "write_error"}
                   => t.pc = "done" /\ t.nreads = 1 /\ t.nwrites = 1

\* a run's only write, naming the sha of the document its only read met,
\* was refused and the run has ended
C16_Witness ==
    \E p \in Procs :
        /\ Wrote(task[p]) /\ task[p].res = "conflict"
        /\ task[p].nreads = 1
        /\ task[p].seen.exists /\ task[p].sha = CurrentSha(task[p].seen)

\* ------------------------------------------------------------------ C17
\* C17 as stated: an add, remove or clear run calls save_tracked only if
\* the list it would save differs, as a set, from the list it read.
C17_Original ==
    \A p \in Procs :
        (task[p].op \in {"add", "remove", "clear"} /\ WriteIssued(task[p]))
        => Range(task[p].repos) /= Range(task[p].snap)

\* C17 (amended): an add or remove run calls save_tracked only if the list
\* it would save differs, as a set, from the list it read; a run whose list
\* equals its snapshot ends without a write.
C17_WriteOnlyIfChanged ==
    \A p \in Procs :
        LET t == task[p]
        IN  /\ (t.op \in {"add", "remove"} /\ WriteIssued(t))
                   => Range(t.repos) /= Range(t.snap)
            /\ (t.op \in {"add", "remove"} /\ ReadOk(t) /\ t.pc = "done"
                    /\ Range(t.repos) = Range(t.snap))
                   => t.nwrites = 0 /\ t.res = "replied"

\* a remove of an untracked identifier has ended without a write on a
\* non-empty registry
C17_Witness ==
    \E p \in Procs :
        /\ RemoveFinished(task[p]) /\ task[p].pc = "done"
        /\ task[p].snap /= <<>> /\ task[p].repos = task[p].snap
        /\ task[p].nwrites = 0
        /\ file = task[p].seen

\* ------------------------------------------------------------------ C18
\* C18: when load_tracked fails the run ends there: no validator call, no
\* save_tracked, nothing added or removed; a save_tracked that fails or is
\* refused leaves the document as it met it.
C18_StoreUnavailable ==
    \A p \in Procs :
        LET t == task[p]
        IN  /\ t.res = "read_error"
                   => /\ t.pc = "done" /\ t.vlog = <<>> /\ t.nwrites = 0
                      /\ t.added = <<>> /\ t.actually_removed = <<>>
            /\ (Wrote(t) /\ t.res /= "replied") => t.after = t.over

\* the read of an add has failed and the write of another run has failed,
\* the document is the one that write met
C18_Witness ==
    \E p, q \in Procs :
        /\ task[p].op = "add" /\ task[p].res = "read_error"
        /\ Wrote(task[q]) /\ task[q].res = "write_error"
        /\ task[q].over.exists /\ file = task[q].over

\* ------------------------------------------------------------------ C19
\* C19: an add or remove run sends its outcome reply only after
\* save_tracked, when it has to call it, has returned: a reply that names an
\* added or removed identifier comes from a run whose write was accepted,
\* and a run whose write failed or was refused ends without the reply.
C19_ReportAfterCommit ==
    \A p \in Procs :
        LET t == task[p]
        IN  t.op \in {"add", "remove"} =>
                /\ (Reported(t) /\ (t.added /= <<>> \/ t.actually_removed /= <<>>))
                       => Committed(t) /\ t.after = Present(t.repos)
                /\ t.pc = "save" => ~Reported(t)
                /\ (Wrote(t) /\ ~Committed(t)) => ~Reported(t)

\* an add with a confirmed candidate ended on a failed write without its
\* reply, a remove replied after its write was accepted
C19_Witness ==
    \E p, q \in Procs :
        /\ task[p].op = "add" /\ task[p].added /= <<>>
        /\ Wrote(task[p]) /\ task[p].res = "write_error" /\ ~Reported(task[p])
        /\ task[q].op = "remove" /\ Committed(task[q]) /\ Reported(task[q])
        /\ task[q].actually_removed /= <<>>

\* ------------------------------------------------------------------ C20
\* C20: a write is refused for its sha only if another run's write was
\* accepted after this run's read; a run about to write that has seen no
\* write accepted since its read names the current sha, so the first writer
\* among runs that read the same document is accepted unless the store
\* fails.
C20_ConflictMeansCompetitor ==
    \A p \in Procs :
        LET t == task[p]
        IN  /\ (Wrote(t) /\ t.res = "conflict") => since[p].any
            /\ (t.pc = "save" /\ ~since[p].any) => PutAccepted(file, t.sha)
            /\ (Wrote(t) /\ ~since[p].any) => t.res \in {"replied", "write_error"}

\* of two runs that read the same document the first writer was accepted
\* and the second refused
C20_Witness ==
    \E p, q \in Procs :
        /\ p /= q
        /\ Committed(task[p]) /\ ~since[p].any
        /\ Wrote(task[q]) /\ task[q].res = "conflict" /\ since[q].any
        /\ task[p].seen = task[q].seen

====
